---- MODULE Spec2Model ----
(***************************************************************************)
(* factory-service: the trend-to-job transformer                           *)
(* (transform_trends_to_jobs.py), the phase-0 worker (worker_phase0.py)    *)
(* and the /run handler (app.py).                                          *)
(*                                                                         *)
(* Python strings are sequences of one-character strings, so that          *)
(* slugify, the aspect-ratio normalisation and the identifier formats are  *)
(* computed as the code computes them.  JSON values are tagged records,    *)
(* the content under a field named after the type: Absent is "the key is  *)
(* not in the dict", Null is None.                                         *)
(***************************************************************************)
EXTENDS Integers, Sequences, FiniteSets, TLC

VARIABLES
    raw, difficulty, limit, trends, jobs, out_file, mpc,  \* transformer main
    trend, job, verdict, bpc,                             \* build_job, then validate
    prog, payload, errors, effects, manifest, response, pc \* worker main / app run

vars == <<raw, difficulty, limit, trends, jobs, out_file, mpc,
          trend, job, verdict, bpc,
          prog, payload, errors, effects, manifest, response, pc>>

mainVars == <<raw, limit, trends, jobs, out_file, mpc>>
buildVars == <<trend, job, verdict, bpc>>
execVars == <<prog, payload, errors, effects, manifest, response, pc>>

---------------------------------------------------------------------------
(* Bounds of the checked instances.                                        *)

\* Variations in one trend's style_variants, all tiers together.
MaxVariations == 2
\* Trend records in one batch handed to main.
MaxTrends == 2
\* Content blocks in one wrapper document, all messages together.
MaxBlocks == 2
\* Entries of a payload's assets list.
MaxAssets == 2

---------------------------------------------------------------------------
(* JSON values.                                                            *)

Absent == [t |-> "absent"]
Null == [t |-> "null"]
Str(s) == [t |-> "str", s |-> s]
Num(n) == [t |-> "num", n |-> n]
Bool(b) == [t |-> "bool", b |-> b]
Arr(xs) == [t |-> "arr", a |-> xs]
Obj(fields) == [t |-> "obj", o |-> fields]

IsStr(x) == x.t = "str"
IsList(x) == x.t = "arr"
IsDict(x) == x.t = "obj"

\* dict.get(key): the value, or None when the key is missing.
Get(x) == IF x = Absent THEN Null ELSE x
\* dict.get(key, default)
GetD(x, d) == IF x = Absent THEN d ELSE x

\* A dict none of whose keys is present is the empty dict {}.
EmptyDict(x) == IsDict(x) /\ \A k \in DOMAIN x.o : x.o[k] = Absent

\* Python truth value of a JSON value.
Truthy(x) ==
    CASE x.t = "absent" -> FALSE
      [] x.t = "null" -> FALSE
      [] x.t = "str" -> x.s # <<>>
      [] x.t = "num" -> x.n # 0
      [] x.t = "bool" -> x.b
      [] x.t = "arr" -> x.a # <<>>
      [] x.t = "obj" -> ~EmptyDict(x)

\* x or d
Or(x, d) == IF Truthy(x) THEN x ELSE d

\* set members must be hashable: lists and dicts are not
Hashable(x) == x.t \notin {"arr", "obj"}

---------------------------------------------------------------------------
(* Strings.                                                                *)

LowerAlpha == <<"a","b","c","d","e","f","g","h","i","j","k","l","m","n","o","p","q","r","s","t","u","v","w","x","y","z">>
UpperAlpha == <<"A","B","C","D","E","F","G","H","I","J","K","L","M","N","O","P","Q","R","S","T","U","V","W","X","Y","Z">>
Whitespace == {" ", "\t", "\n"}
Range(s) == {s[i] : i \in DOMAIN s}
\* the class [a-z0-9] of slugify's pattern
SlugChars == Range(LowerAlpha) \cup Range(<<"0","1","2","3","4","5","6","7","8","9">>)

RECURSIVE LStripSet(_, _)
LStripSet(s, cs) ==
    IF s = <<>> THEN s
    ELSE IF Head(s) \in cs THEN LStripSet(Tail(s), cs) ELSE s

RECURSIVE RStripSet(_, _)
RStripSet(s, cs) ==
    IF s = <<>> THEN s
    ELSE IF s[Len(s)] \in cs THEN RStripSet(SubSeq(s, 1, Len(s) - 1), cs) ELSE s

\* str.strip(chars)
StripSet(s, cs) == RStripSet(LStripSet(s, cs), cs)
\* str.strip()
Strip(s) == StripSet(s, Whitespace)

LowerChar(c) ==
    IF \E i \in 1..26 : UpperAlpha[i] = c
    THEN LowerAlpha[CHOOSE i \in 1..26 : UpperAlpha[i] = c]
    ELSE c
\* str.lower()
Lower(s) == [i \in 1..Len(s) |-> LowerChar(s[i])]

StartsWithAt(s, pat, i) ==
    /\ i + Len(pat) - 1 <= Len(s)
    /\ SubSeq(s, i, i + Len(pat) - 1) = pat
\* pat in s
Contains(s, pat) == \E i \in 1..(Len(s) + 1) : StartsWithAt(s, pat, i)
StartsWith(s, pat) == StartsWithAt(s, pat, 1)
EndsWith(s, pat) == Len(pat) <= Len(s) /\ StartsWithAt(s, pat, Len(s) - Len(pat) + 1)

\* str.replace(old, new), old not empty: leftmost occurrences, not overlapping
RECURSIVE Replace(_, _, _)
Replace(s, old, new) ==
    IF s = <<>> THEN <<>>
    ELSE IF StartsWithAt(s, old, 1)
         THEN new \o Replace(SubSeq(s, Len(old) + 1, Len(s)), old, new)
         ELSE <<Head(s)>> \o Replace(Tail(s), old, new)

\* re.sub(r"[^a-z0-9]+", "-", s)
RECURSIVE SubNonSlugRuns(_)
SubNonSlugRuns(s) ==
    IF s = <<>> THEN <<>>
    ELSE IF Head(s) \in SlugChars
         THEN <<Head(s)>> \o SubNonSlugRuns(Tail(s))
         ELSE <<"-">> \o SubNonSlugRuns(LStripSet(s, Range(s) \ SlugChars))

\* re.sub(r"-+", "-", s)
RECURSIVE SubHyphenRuns(_)
SubHyphenRuns(s) ==
    IF s = <<>> THEN <<>>
    ELSE IF Head(s) # "-"
         THEN <<Head(s)>> \o SubHyphenRuns(Tail(s))
         ELSE <<"-">> \o SubHyphenRuns(LStripSet(s, {"-"}))

SlugMaxLen == 80

slugify(s0) ==
    LET s1 == Lower(Strip(s0))
        s2 == SubNonSlugRuns(s1)
        s3 == StripSet(SubHyphenRuns(s2), {"-"})
    IN  IF Len(s3) > SlugMaxLen THEN SubSeq(s3, 1, SlugMaxLen) ELSE s3

---------------------------------------------------------------------------
(* transform_trends_to_jobs.py: normalize_variations and build_job.        *)
(* A result is [raised, val]: raised is TRUE when the call ends with an    *)
(* exception instead of returning val.                                     *)

Ok(x) == [raised |-> FALSE, val |-> x]
Raised(e) == [raised |-> TRUE, exc |-> e]

INTERMEDIATE == <<"i","n","t","e","r","m","e","d","i","a","t","e">>
BATHMAT_GENERATOR == <<"b","a","t","h","m","a","t","_","t","e","x","t","u","r","e","_","f","r","o","m","_","p","a","l","e","t","t","e">>

\* style_variants is an insertion-ordered mapping: a sequence of [k, b]
\* entries with distinct keys.
Map(entries) == [t |-> "map", m |-> entries]
KeyIn(k, sv) == \E i \in DOMAIN sv : sv[i].k = k
\* mapping.get(k, {})
Lookup(sv, k) ==
    IF KeyIn(k, sv)
    THEN sv[CHOOSE i \in DOMAIN sv : sv[i].k = k].b
    ELSE Obj([variations |-> Absent])

\* The fallback without the preference for "intermediate".
ResolveTier_FirstKey(sv, d) ==
    IF ~KeyIn(d, sv)
    THEN IF sv = <<>> THEN Raised("StopIteration") ELSE Ok(sv[1].k)
    ELSE Ok(d)

\* difficulty_key; next(iter({}.keys())) raises StopIteration
ResolveTier(sv, d) ==
    IF ~KeyIn(d, sv)
    THEN IF KeyIn(INTERMEDIATE, sv) THEN Ok(INTERMEDIATE)
         ELSE IF sv = <<>> THEN Raised("StopIteration") ELSE Ok(sv[1].k)
    ELSE Ok(d)

\* ar_token
ArToken(ar) ==
    LET tok == Replace(Replace(Replace(Replace(ar, <<"-","-","a","r">>, <<>>),
                                       <<"-","-","t","i","l","e">>, <<"t","i","l","e">>), <<" ">>, <<>>),
                       <<":">>, <<"x">>)
    IN  IF Contains(ar, <<"t","i","l","e">>) THEN <<"1","x","1","_","t","i","l","e">> ELSE tok

VType(v) == Strip(Or(Get(v.o.type), Str(<<"a","s","s","e","t">>)).s)

AssetId(trend_id, v) ==
    LET ar == Strip(Or(Get(v.o.aspect_ratio), Str(<<>>)).s)
        ar_token == ArToken(ar)
    IN  trend_id \o <<"_">> \o slugify(VType(v)) \o <<"_">>
            \o slugify(IF ar_token # <<>> THEN ar_token ELSE <<"n","a">>)

\* An mj block that loses the variation's prompt.
MjBlock_NoPrompt(v) == Obj([visual_prompt |-> Null, image_url |-> Null])

MjBlock(v) == Obj([visual_prompt |-> Get(v.o.visual_prompt), image_url |-> Null])

PbnBlock(v) ==
    IF Truthy(Get(v.o.pbn_twin_prompt))
    THEN Obj([pbn_twin_prompt |-> Get(v.o.pbn_twin_prompt), image_url |-> Null])
    ELSE Absent

\* the coordinate bath mat is generated, not MJ-based
IsBathCoordinate(v) ==
    /\ Lower(VType(v)) = <<"c","o","o","r","d","i","n","a","t","e">>
    /\ Contains(Lower(Or(Get(v.o.purpose), Str(<<>>)).s), <<"b","a","t","h">>)

\* one pass of the loop over the variations
BuildAsset(trend_id, v) ==
    LET ar == Strip(Or(Get(v.o.aspect_ratio), Str(<<>>)).s)
        ar_token == ArToken(ar)
        bath == IsBathCoordinate(v)
    IN  Obj([asset_id |-> Str(AssetId(trend_id, v)),
             type |-> Str(VType(v)),
             purpose |-> Get(v.o.purpose),
             aspect_ratio |-> IF ar_token # <<>> THEN Str(ar_token) ELSE Null,
             lane |-> IF bath THEN Str(<<"g","e","n","e","r","a","t","e","d">>) ELSE Str(<<"p","o","d","_","r","a","s","t","e","r">>),
             mj |-> IF bath THEN Absent ELSE MjBlock(v),
             pbn |-> IF bath THEN Absent ELSE PbnBlock(v),
             generator |-> IF bath THEN Str(BATHMAT_GENERATOR) ELSE Absent])

SyntheticBathmat ==
    Obj([asset_id |-> Str(<<"b","a","t","h","m","a","t","_","c","o","o","r","d","i","n","a","t","e">>),
         type |-> Str(<<"C","o","o","r","d","i","n","a","t","e">>),
         purpose |-> Str(<<"B","a","t","h"," ","M","a","t"," ","T","e","x","t","u","r","e","s">>),
         aspect_ratio |-> Absent,
         lane |-> Str(<<"g","e","n","e","r","a","t","e","d">>),
         mj |-> Absent,
         pbn |-> Absent,
         generator |-> Str(BATHMAT_GENERATOR)])

IsBathmatAsset(a) == Get(a.o.generator) = Str(BATHMAT_GENERATOR)

\* the loop over the variations, then the bath-mat guarantee
AssetsOfVariations(trend_id, variations) ==
    LET assets == [i \in 1..Len(variations) |-> BuildAsset(trend_id, variations[i])]
    IN  IF ~\E i \in DOMAIN assets : IsBathmatAsset(assets[i])
        THEN Append(assets, SyntheticBathmat)
        ELSE assets

TrendId(tr) == slugify(GetD(tr.o.trend_name, Str(<<"t","r","e","n","d">>)).s)

StyleVariants(tr) == GetD(tr.o.style_variants, Map(<<>>)).m

TierVariations(tr, key) ==
    GetD(Lookup(StyleVariants(tr), key).o.variations, Arr(<<>>)).a

normalize_variations(tr, d) ==
    LET tier == ResolveTier(StyleVariants(tr), d)
    IN  IF tier.raised THEN tier
        ELSE Ok(AssetsOfVariations(TrendId(tr), TierVariations(tr, tier.val)))

Providers ==
    Obj([prodigi |-> Arr(<<Str(<<"t","a","p","e","s","t","r","y">>), Str(<<"w","o","v","e","n","_","b","l","a","n","k","e","t">>)>>),
         printful |-> Arr(<<Str(<<"p","i","l","l","o","w">>), Str(<<"s","h","o","w","e","r","_","c","u","r","t","a","i","n">>), Str(<<"g","i","f","t","_","w","r","a","p">>)>>)])

RequestedOutputs ==
    Obj([digital_bundle |-> Bool(TRUE), palette |-> Bool(TRUE),
         bathmat_textures |-> Bool(TRUE), projector_mode |-> Bool(FALSE),
         pbn_lane |-> Bool(TRUE)])

JobId(collection_id, trend_id, d) ==
    collection_id \o <<"_">> \o trend_id \o <<"_">> \o d

build_job(tr, collection_id, d, output_base_dir) ==
    LET trend_name == GetD(tr.o.trend_name, Str(<<"t","r","e","n","d">>))
        trend_id == slugify(trend_name.s)
        assets == normalize_variations(tr, d)
    IN  IF assets.raised THEN assets
        ELSE Ok(Obj([
            job_id |-> Str(JobId(collection_id, trend_id, d)),
            collection_id |-> Str(collection_id),
            trend |-> Obj([trend_id |-> Str(trend_id),
                           trend_name |-> trend_name,
                           assigned_brand |-> GetD(tr.o.assigned_brand, Str(<<"b","r","a","n","d">>)),
                           category |-> Get(tr.o.category),
                           vibe |-> Get(tr.o.vibe),
                           reason |-> Get(tr.o.reason),
                           visual_motifs |-> Get(tr.o.visual_motifs),
                           color_palette_human |-> Get(tr.o.color_palette)]),
            difficulty |-> Str(d),
            providers |-> Providers,
            requested_outputs |-> RequestedOutputs,
            assets |-> Arr(assets.val),
            io |-> Obj([output_base_dir |-> Str(output_base_dir)])]))

---------------------------------------------------------------------------
(* worker_phase0.py: validate_payload.  A payload is a dict with the       *)
(* fields of REQUIRED_TOP_KEYS, each Absent when the key is missing.  An   *)
(* error is [msg, at, key, val]: the message, the asset index it names     *)
(* (-1: none), the top-level key it names ("": none) and the value it      *)
(* quotes (Null: none).                                                    *)

REQUIRED_TOP_KEYS ==
    <<"job_id", "collection_id", "trend", "difficulty", "providers",
      "requested_outputs", "assets", "io">>

Err(msg, at, key, val) == [msg |-> msg, at |-> at, key |-> key, val |-> val]

RECURSIVE MissingKeyErrors(_, _)
MissingKeyErrors(p, i) ==
    IF i > Len(REQUIRED_TOP_KEYS) THEN <<>>
    ELSE (IF p.o[REQUIRED_TOP_KEYS[i]] = Absent
          THEN <<Err("Missing top-level key", -1, REQUIRED_TOP_KEYS[i], Null)>>
          ELSE <<>>) \o MissingKeyErrors(p, i + 1)

TypeErrors(p) ==
    (IF p.o.job_id # Absent /\ ~IsStr(p.o.job_id)
     THEN <<Err("job_id must be a string", -1, "", Null)>> ELSE <<>>)
    \o (IF p.o.assets # Absent /\ ~IsList(p.o.assets)
        THEN <<Err("assets must be an array", -1, "", Null)>> ELSE <<>>)

\* what enumerate(assets) walks: a list's items, a string's characters, a
\* dict's keys (strings: only their not being dicts matters here); None, a
\* number or a boolean is not iterable (TypeError)
Iterable(x) == x.t \in {"arr", "str", "obj"}
Items(x) ==
    CASE IsStr(x) -> [i \in 1..Len(x.s) |-> Str(<<x.s[i]>>)]
      [] IsDict(x) -> [i \in 1..Cardinality({k \in DOMAIN x.o : x.o[k] # Absent})
                         |-> Str(<<"k">>)]
      [] OTHER -> x.a

\* No asset is exempt from the mj/pbn checks.
SkipsFieldChecks_Never(a) == FALSE

\* the asset leaves the loop before the mj/pbn checks
SkipsFieldChecks(a) == Get(a.o.generator) = Str(BATHMAT_GENERATOR)

MjErrors(a, i) ==
    LET mj == Get(a.o.mj)
    IN  IF ~Truthy(mj) THEN <<>>
        ELSE IF ~IsDict(mj) THEN <<Err("mj must be object", i, "", Null)>>
        ELSE IF ~Truthy(Get(mj.o.visual_prompt)) /\ ~Truthy(Get(mj.o.image_url))
             THEN <<Err("needs mj.visual_prompt or mj.image_url", i, "", Null)>>
             ELSE <<>>

PbnErrors(a, i) ==
    LET pbn == Get(a.o.pbn)
    IN  IF Truthy(pbn) /\ ~IsDict(pbn)
        THEN <<Err("pbn must be object", i, "", Null)>> ELSE <<>>

\* the loop over enumerate(assets) from item i (0-based index i - 1) on,
\* with the set seen_ids and the errors so far
RECURSIVE AssetErrors(_, _, _, _)
AssetErrors(items, i, seen_ids, errs) ==
    IF i > Len(items) THEN Ok(errs)
    ELSE LET a == items[i]
             aid == IF IsDict(a) THEN Get(a.o.asset_id) ELSE Null
         IN  IF ~IsDict(a)
             THEN AssetErrors(items, i + 1, seen_ids,
                              Append(errs, Err("must be an object", i - 1, "", Null)))
             ELSE IF Truthy(aid) /\ ~Hashable(aid)
             THEN Raised("TypeError")
             ELSE LET idErr == IF ~Truthy(aid)
                               THEN <<Err("missing asset_id", i - 1, "", Null)>>
                               ELSE IF aid \in seen_ids
                               THEN <<Err("Duplicate asset_id", -1, "", aid)>>
                               ELSE <<>>
                      seen == IF Truthy(aid) THEN seen_ids \cup {aid} ELSE seen_ids
                      fieldErrs == IF SkipsFieldChecks(a) THEN <<>>
                                   ELSE MjErrors(a, i - 1) \o PbnErrors(a, i - 1)
                  IN  AssetErrors(items, i + 1, seen, errs \o idErr \o fieldErrs)

ProviderErrors(p) ==
    LET providers == GetD(p.o.providers, Obj([prodigi |-> Absent, printful |-> Absent]))
    IN  IF ~IsDict(providers) THEN <<Err("providers must be object", -1, "", Null)>>
        ELSE IF providers.o.prodigi = Absent \/ providers.o.printful = Absent
             THEN <<Err("providers must include prodigi and printful", -1, "", Null)>>
             ELSE <<>>

validate_payload(p) ==
    LET head == MissingKeyErrors(p, 1) \o TypeErrors(p)
        assets == GetD(p.o.assets, Arr(<<>>))
    IN  IF ~Iterable(assets) THEN Raised("TypeError")
        ELSE LET r == AssetErrors(Items(assets), 1, {}, head)
             IN  IF r.raised THEN r ELSE Ok(r.val \o ProviderErrors(p))

---------------------------------------------------------------------------
(* transform_trends_to_jobs.py: extract_inner_trends.  A text is a         *)
(* sequence of tokens: "<fence-json>" and "<fence>" (three backquotes with *)
(* and without the word json), the JSON                                    *)
(* punctuation "[", "]", "{", "}", ",", the number "1", white space " ",   *)
(* a prose word "w", and "T1", "T2", ... each standing for the members of  *)
(* one JSON object (TokenObject gives the object).                         *)

\* o[key] of a dict of any shape, Absent when the key is missing
Field(o, key) == IF key \in DOMAIN o.o THEN o.o[key] ELSE Absent

TrendFields(name, sv) ==
    [trend_name |-> name, assigned_brand |-> Absent, category |-> Absent,
     vibe |-> Absent, reason |-> Absent, visual_motifs |-> Absent,
     color_palette |-> Absent, style_variants |-> sv]

Variation(type, purpose, ar, vp, pbn) ==
    Obj([type |-> type, purpose |-> purpose, aspect_ratio |-> ar,
         visual_prompt |-> vp, pbn_twin_prompt |-> pbn])

Block(variations) == Obj([variations |-> variations])
Tier(k, b) == [k |-> k, b |-> b]

V_hero == Variation(Str(<<"H","e","r","o">>), Str(<<"W","a","l","l"," ","A","r","t">>), Str(<<"-","-","a","r"," ","2",":","3">>),
                    Str(<<"b","o","l","d"," ","s","u","n">>), Absent)
V_hero2 == Variation(Str(<<"h","e","r","o"," ">>), Absent, Str(<<"2",":","3">>),
                     Str(<<"b","o","l","d"," ","s","u","n">>), Str(<<"p","b","n"," ","s","u","n">>))
V_tile == Variation(Str(<<"P","a","t","t","e","r","n">>), Str(<<"W","a","l","l"," ","A","r","t">>), Str(<<"-","-","t","i","l","e"," ","1",":","1">>),
                    Str(<<"b","o","l","d"," ","s","u","n">>), Str(<<"p","b","n"," ","s","u","n">>))
V_bath == Variation(Str(<<"C","o","o","r","d","i","n","a","t","e">>), Str(<<"B","a","t","h"," ","M","a","t">>), Absent, Str(<<"b","o","l","d"," ","s","u","n">>), Absent)
V_bath2 == Variation(Str(<<"c","o","o","r","d","i","n","a","t","e">>), Str(<<"b","a","t","h"," ","r","u","g">>), Str(<<"1",":","1">>), Null, Absent)
V_bare == Variation(Absent, Absent, Absent, Absent, Absent)

KIDS == <<"k","i","d","s">>
BEGINNER == <<"b","e","g","i","n","n","e","r">>
ADVANCED == <<"a","d","v","a","n","c","e","d">>
\* argparse's choices for --difficulty
Difficulties == {KIDS, BEGINNER, INTERMEDIATE, ADVANCED}

\* the trends a text can embed
T_good == Obj(TrendFields(Str(<<"S","u","n","s","e","t"," ","G","l","o","w","!">>),
                          Map(<<Tier(INTERMEDIATE, Block(Arr(<<V_hero, V_tile>>)))>>)))
T_noStyleVariants == Obj(TrendFields(Str(<<"H","e","r","o">>), Absent))
EmptyDictValue == Obj(TrendFields(Absent, Absent))

TokenObject == [T1 |-> T_good, T2 |-> T_noStyleVariants]

IsWs(tok) == tok = " "
\* the text of "<fence-json>" starts with the three backquotes of "<fence>"
IsFenceClose(tok) == tok \in {"<fence>", "<fence-json>"}

RECURSIVE SkipWs(_, _)
SkipWs(toks, i) ==
    IF i <= Len(toks) /\ IsWs(toks[i]) THEN SkipWs(toks, i + 1) ELSE i
RECURSIVE SkipWsBack(_, _)
SkipWsBack(toks, i) ==
    IF i >= 1 /\ IsWs(toks[i]) THEN SkipWsBack(toks, i - 1) ELSE i

At(toks, i) == IF i \in DOMAIN toks THEN toks[i] ELSE "<end>"

ParseFail == [ok |-> FALSE, val |-> Null, next |-> 0]
Parsed(val, next) == [ok |-> TRUE, val |-> val, next |-> next]

\* one JSON value from token i on
RECURSIVE ParseValue(_, _)
RECURSIVE ParseElems(_, _, _)
ParseValue(toks, i) ==
    CASE At(toks, i) = "1" -> Parsed(Num(1), i + 1)
      [] At(toks, i) = "{" ->
            LET j == SkipWs(toks, i + 1)
                k == SkipWs(toks, j + 1)
            IN  IF At(toks, j) = "}" THEN Parsed(EmptyDictValue, j + 1)
                ELSE IF At(toks, j) \in DOMAIN TokenObject /\ At(toks, k) = "}"
                     THEN Parsed(TokenObject[At(toks, j)], k + 1)
                     ELSE ParseFail
      [] At(toks, i) = "[" ->
            LET j == SkipWs(toks, i + 1)
            IN  IF At(toks, j) = "]" THEN Parsed(Arr(<<>>), j + 1)
                ELSE ParseElems(toks, j, <<>>)
      [] OTHER -> ParseFail
ParseElems(toks, i, acc) ==
    LET r == ParseValue(toks, i)
        j == SkipWs(toks, r.next)
    IN  IF ~r.ok THEN ParseFail
        ELSE IF At(toks, j) = "," THEN ParseElems(toks, SkipWs(toks, j + 1), Append(acc, r.val))
        ELSE IF At(toks, j) = "]" THEN Parsed(Arr(Append(acc, r.val)), j + 1)
        ELSE ParseFail

\* json.loads: JSONDecodeError is a ValueError
json_loads(toks) ==
    LET r == ParseValue(toks, SkipWs(toks, 1))
    IN  IF r.ok /\ SkipWs(toks, r.next) > Len(toks)
        THEN Ok(r.val) ELSE Raised("JSONDecodeError")

\* re.search of the fenced-array pattern, with re.DOTALL:
\* the group opens at token a ("[") and closes at token b ("]")
FenceMatch(toks, f, a, b) ==
    /\ f \in DOMAIN toks /\ toks[f] = "<fence-json>"
    /\ a = SkipWs(toks, f + 1) /\ At(toks, a) = "["
    /\ At(toks, SkipWs(toks, a + 1)) = "{"
    /\ b \in DOMAIN toks /\ toks[b] = "]"
    /\ SkipWsBack(toks, b - 1) > SkipWs(toks, a + 1)
    /\ At(toks, SkipWsBack(toks, b - 1)) = "}"
    /\ IsFenceClose(At(toks, SkipWs(toks, b + 1)))

HasFence(toks) == \E f, a, b \in DOMAIN toks : FenceMatch(toks, f, a, b)

\* m.group(1): the leftmost fence, and .* taking as much as it can
FenceGroup(toks) ==
    LET f == CHOOSE f \in DOMAIN toks :
                /\ \E a, b \in DOMAIN toks : FenceMatch(toks, f, a, b)
                /\ \A g \in 1..(f - 1) : ~\E a, b \in DOMAIN toks : FenceMatch(toks, g, a, b)
        a == SkipWs(toks, f + 1)
        b == CHOOSE b \in DOMAIN toks :
                /\ FenceMatch(toks, f, a, b)
                /\ \A c \in (b + 1)..Len(toks) : ~FenceMatch(toks, f, a, c)
    IN  SubSeq(toks, a, b)

StripWs(toks) == SubSeq(toks, SkipWs(toks, 1), SkipWsBack(toks, Len(toks)))

\* what one output_text block does: "return" a value, "raise", or "next"
\* (fall through to the next block)
BlockOutcome(c) ==
    LET text == GetD(Field(c, "text"), Str(<<>>)).s
        bare == StripWs(text)
    IN  IF HasFence(text)
        THEN json_loads(FenceGroup(text))
        ELSE IF bare # <<>> /\ Head(bare) = "[" /\ bare[Len(bare)] = "]"
             THEN json_loads(text)
             ELSE [raised |-> FALSE, val |-> Absent]

\* the blocks the two loops visit, in order
RECURSIVE CandidateBlocks(_)
CandidateBlocks(output) ==
    IF output = <<>> THEN <<>>
    ELSE LET msg == Head(output)
             content == GetD(Field(msg, "content"), Arr(<<>>)).a
         IN  (IF Get(Field(msg, "type")) = Str(<<"m","e","s","s","a","g","e">>)
              THEN SelectSeq(content, LAMBDA c : Get(Field(c, "type")) = Str(<<"o","u","t","p","u","t","_","t","e","x","t">>))
              ELSE <<>>) \o CandidateBlocks(Tail(output))

\* the first block that returns or raises decides
RECURSIVE ScanBlocks(_)
ScanBlocks(blocks) ==
    IF blocks = <<>> THEN Raised("ValueError")
    ELSE LET r == BlockOutcome(Head(blocks))
         IN  IF r.raised \/ r.val # Absent THEN r ELSE ScanBlocks(Tail(blocks))

extract_inner_trends(r) ==
    IF IsList(r) /\ r.a # <<>> /\ IsDict(r.a[1]) /\ Field(r.a[1], "trend_name") # Absent
    THEN Ok(r)
    ELSE IF ~IsList(r) \/ r.a = <<>> THEN Raised("ValueError")
    ELSE IF ~IsDict(r.a[1]) THEN Raised("AttributeError")
    ELSE LET output == GetD(Field(r.a[1], "output"), Arr(<<>>))
         IN  IF ~Truthy(output) THEN Raised("ValueError")
             ELSE ScanBlocks(CandidateBlocks(output.a))

---------------------------------------------------------------------------
(* Inputs.                                                                 *)

\* sequences over S of length at most n
SeqsUpTo(S, n) == UNION {[1..k -> S] : k \in 0..n}

VariationPool == {V_hero, V_hero2, V_tile, V_bath, V_bath2, V_bare}
TierKeys == {KIDS, INTERMEDIATE, ADVANCED}
VariationLists(n) == SeqsUpTo(VariationPool, n)
BlocksUpTo(n) == {Block(Absent)} \cup {Block(Arr(l)) : l \in VariationLists(n)}
BlockSize(b) == Len(GetD(b.o.variations, Arr(<<>>)).a)

\* style_variants of at most two tiers holding at most MaxVariations
\* variations, or no style_variants at all
StyleVariantsInputs ==
    {Absent, Map(<<>>)}
    \cup {Map(<<Tier(k, b)>>) : k \in TierKeys, b \in BlocksUpTo(MaxVariations)}
    \cup UNION {
           {Map(<<Tier(ks[1], b1), Tier(ks[2], b2)>>) :
               b2 \in BlocksUpTo(MaxVariations - BlockSize(b1))} :
           ks \in {p \in TierKeys \X TierKeys : p[1] # p[2]},
           b1 \in BlocksUpTo(MaxVariations)}

COLLECTION_ID == <<"L","L","_","2","0","2","6">>
\* the default of --output-base-dir
OUTPUT_BASE_DIR == <<"/","d","a","t","a","/","o","u","t","p","u","t","s">>

Idle == [t |-> "idle"]

MainIdle ==
    /\ raw = Idle /\ limit = 0 /\ trends = Idle /\ jobs = <<>>
    /\ out_file = Idle /\ mpc = "idle"
BuildIdle == trend = Idle /\ job = Idle /\ verdict = Idle /\ bpc = "idle"
ExecIdle ==
    /\ prog = "idle" /\ payload = Idle /\ errors = Idle /\ effects = <<>>
    /\ manifest = Idle /\ response = Idle /\ pc = "idle"

---------------------------------------------------------------------------
(* build_job on one trend, and the worker's validator on its result.       *)

InitBuild ==
    /\ \E name \in {Absent, Str(<<"S","u","n","s","e","t"," ","G","l","o","w","!">>)}, sv \in StyleVariantsInputs :
          trend = Obj(TrendFields(name, sv))
    /\ difficulty \in Difficulties
    /\ job = Idle /\ verdict = Idle /\ bpc = "start"
    /\ MainIdle /\ ExecIdle

BuildJob ==
    /\ bpc = "start"
    /\ job' = build_job(trend, COLLECTION_ID, difficulty, OUTPUT_BASE_DIR)
    /\ bpc' = IF job'.raised THEN "raised" ELSE "built"
    /\ UNCHANGED <<trend, verdict, difficulty, mainVars, execVars>>

ValidateJob ==
    /\ bpc = "built"
    /\ verdict' = validate_payload(job.val)
    /\ bpc' = "validated"
    /\ UNCHANGED <<trend, job, difficulty, mainVars, execVars>>

NextBuild == BuildJob \/ ValidateJob

SpecBuild == InitBuild /\ [][NextBuild]_vars

---------------------------------------------------------------------------
(* extract_inner_trends on one wrapper document.                           *)

TextBlock(type, toks) == Obj([type |-> Str(type), text |-> Str(toks)])
Message(type, content) == Obj([type |-> Str(type), content |-> content])
Wrapper(output) == Arr(<<Obj([output |-> output])>>)

X_bare == <<" ", "[", "{", "T1", "}", ",", " ", "{", "T2", "}", "]", " ">>

\* prose around a fenced array; a bare array; the empty array; prose only;
\* text json.loads rejects; two fenced arrays; an array of numbers
Texts ==
    {<<"w", " ", "<fence-json>", " ", "[", "{", "T1", "}", "]", " ", "<fence>", "w">>,
     X_bare,
     <<"[", "]">>,
     <<"w", " ", "w">>,
     <<"[", "w", "]">>,
     <<"<fence-json>", "[", "{", "T1", "}", "]", "<fence>", "w",
       "<fence-json>", "[", "{", "T2", "}", "]", "<fence>">>,
     <<"[", "1", "]">>}

BlockPool ==
    {TextBlock(<<"o","u","t","p","u","t","_","t","e","x","t">>, x) : x \in Texts}
    \cup {TextBlock(<<"r","e","f","u","s","a","l">>, X_bare)}

ContentLists(n) == SeqsUpTo(BlockPool, n)

\* outputs of at most two messages holding at most MaxBlocks blocks
OutputInputs ==
    {<<>>}
    \cup {<<Message(t, Arr(c))>> : t \in {<<"m","e","s","s","a","g","e">>, <<"r","e","a","s","o","n","i","n","g">>}, c \in ContentLists(MaxBlocks)}
    \cup UNION {
           {<<Message(t1, Arr(c1)), Message(<<"m","e","s","s","a","g","e">>, Arr(c2))>> :
               c2 \in ContentLists(MaxBlocks - Len(c1))} :
           t1 \in {<<"m","e","s","s","a","g","e">>, <<"r","e","a","s","o","n","i","n","g">>}, c1 \in ContentLists(MaxBlocks)}

\* trends with a usable tier, with only the advanced tier, without
\* style_variants, with an empty style_variants, with an empty variations
\* list and with a tier that has no variations key
MainTrendPool ==
    {T_good,
     Obj(TrendFields(Str(<<"H","e","r","o">>), Map(<<Tier(ADVANCED, Block(Arr(<<V_bath>>)))>>))),
     T_noStyleVariants,
     Obj(TrendFields(Str(<<"H","e","r","o">>), Map(<<>>))),
     Obj(TrendFields(Str(<<"H","e","r","o">>), Map(<<Tier(INTERMEDIATE, Block(Arr(<<>>)))>>))),
     Obj(TrendFields(Str(<<"H","e","r","o">>), Map(<<Tier(KIDS, Block(Absent))>>)))}

RawInputsExtract ==
    {Wrapper(Arr(o)) : o \in OutputInputs}
    \cup {Wrapper(Absent), Arr(<<>>), Obj([output |-> Arr(<<>>)]),
          Arr(<<Num(1)>>), Arr(<<EmptyDictValue>>)}
    \cup {Arr(l) : l \in SeqsUpTo(MainTrendPool, 1) \ {<<>>}}

InitExtract ==
    /\ raw \in RawInputsExtract
    /\ limit = 0 /\ trends = Idle /\ jobs = <<>> /\ out_file = Idle
    /\ mpc = "call"
    /\ difficulty = INTERMEDIATE
    /\ BuildIdle /\ ExecIdle

Extract ==
    /\ mpc = "call"
    /\ trends' = extract_inner_trends(raw)
    /\ mpc' = IF trends'.raised THEN "raised" ELSE "returned"
    /\ UNCHANGED <<raw, limit, jobs, out_file, difficulty, buildVars, execVars>>

SpecExtract == InitExtract /\ [][Extract]_vars

---------------------------------------------------------------------------
(* transform_trends_to_jobs.py: main, on a batch.                          *)

RawInputsMain ==
    {Arr(l) : l \in SeqsUpTo(MainTrendPool, MaxTrends)}
    \cup {Wrapper(Arr(<<Message(<<"m","e","s","s","a","g","e">>, Arr(<<TextBlock(<<"o","u","t","p","u","t","_","t","e","x","t">>, x)>>))>>)) :
             x \in Texts}

InitMain ==
    /\ raw \in RawInputsMain
    /\ difficulty \in Difficulties
    /\ limit \in 0..MaxTrends
    /\ trends = Idle /\ jobs = <<>> /\ out_file = Idle
    /\ mpc = "start"
    /\ BuildIdle /\ ExecIdle

\* trends = extract_inner_trends(raw), then the --limit cut
MainExtract ==
    /\ mpc = "start"
    /\ LET r == extract_inner_trends(raw)
       IN  /\ trends' = IF r.raised THEN r
                        ELSE IF limit > 0
                             THEN Ok(Arr(SubSeq(r.val.a, 1, IF limit < Len(r.val.a)
                                                            THEN limit ELSE Len(r.val.a))))
                             ELSE r
           /\ mpc' = IF r.raised THEN "failed" ELSE "building"
    /\ UNCHANGED <<raw, limit, jobs, out_file, difficulty, buildVars, execVars>>

\* one element of the list comprehension; an exception ends main
MainBuildJob ==
    /\ mpc = "building"
    /\ Len(jobs) < Len(trends.val.a)
    /\ LET t == trends.val.a[Len(jobs) + 1]
           r == IF IsDict(t)
                THEN build_job(t, COLLECTION_ID, difficulty, OUTPUT_BASE_DIR)
                ELSE Raised("AttributeError")
       IN  IF r.raised
           THEN mpc' = "failed" /\ jobs' = <<>>
           ELSE mpc' = "building" /\ jobs' = Append(jobs, r.val)
    /\ UNCHANGED <<raw, limit, trends, out_file, difficulty, buildVars, execVars>>

\* json.dump(jobs, f)
MainWrite ==
    /\ mpc = "building"
    /\ Len(jobs) = Len(trends.val.a)
    /\ out_file' = Arr(jobs)
    /\ mpc' = "done"
    /\ UNCHANGED <<raw, limit, trends, jobs, difficulty, buildVars, execVars>>

NextMain == MainExtract \/ MainBuildJob \/ MainWrite

Spec == InitMain /\ [][NextMain]_vars

---------------------------------------------------------------------------
(* worker_phase0.py: main.  effects is what the run has done to the file   *)
(* system (and, for app.py, the network), in order; manifest is the        *)
(* content of manifest.json.  Time stamps are left out of the log lines.   *)

\* os.path.join(a, b)
PathJoin(a, b) ==
    IF StartsWith(b, <<"/">>) THEN b
    ELSE IF a = <<>> \/ EndsWith(a, <<"/">>) THEN a \o b
    ELSE a \o <<"/">> \o b

Effect(op, path, data) == [op |-> op, path |-> path, data |-> data]
MkDir(path) == Effect("mkdir", path, Null)
LogLine(path, what, data) == Effect("log", path, [what |-> what, data |-> data])
WriteJson(path, content) == Effect("write", path, content)
Download(url, path) == Effect("download", path, url)

\* the folder tree, in the order of the loop
FOLDERS == <<<<"i","n","p","u","t","s">>, <<"p","o","d">>, <<"d","i","g","i","t","a","l">>, <<"p","a","l","e","t","t","e">>, <<"p","b","n">>, <<"p","r","o","c","r","e","a","t","e">>, <<"p","r","e","v","i","e","w","s">>>>
LOGS_TXT == <<"l","o","g","s",".","t","x","t">>
MANIFEST_JSON == <<"m","a","n","i","f","e","s","t",".","j","s","o","n">>

\* out_base, job_id, root of main (lines 147-149): io must be a dict, and
\* os.path.join takes strings only
WorkerRoot(p) ==
    LET io == GetD(p.o.io, Obj([output_base_dir |-> Absent]))
        out_base == IF IsDict(io)
                    THEN Or(Get(io.o.output_base_dir), Str(OUTPUT_BASE_DIR))
                    ELSE Null
        job_id == GetD(p.o.job_id, Str(<<"j","o","b","_","u","n","k","n","o","w","n">>))
    IN  IF ~IsDict(io) THEN Raised("AttributeError")
        ELSE IF ~IsStr(out_base) \/ ~IsStr(job_id) THEN Raised("TypeError")
        ELSE Ok([out_base |-> out_base.s, job_id |-> job_id.s,
                 root |-> PathJoin(out_base.s, job_id.s)])

\* payload["job_id"] raises KeyError when the key is missing
build_manifest(p, root) ==
    IF p.o.job_id = Absent THEN Raised("KeyError")
    ELSE Ok([job_id |-> p.o.job_id,
             collection_id |-> Get(p.o.collection_id),
             status |-> "phase0_initialized",
             trend |-> GetD(p.o.trend, Obj([trend_id |-> Absent])),
             difficulty |-> Get(p.o.difficulty),
             providers |-> GetD(p.o.providers, Obj([prodigi |-> Absent, printful |-> Absent])),
             requested_outputs |-> GetD(p.o.requested_outputs, Obj([palette |-> Absent])),
             paths |-> [root |-> root,
                        folders |-> [i \in DOMAIN FOLDERS |-> PathJoin(root, FOLDERS[i])],
                        logs |-> PathJoin(root, LOGS_TXT),
                        manifest |-> PathJoin(root, MANIFEST_JSON)],
             files |-> <<>>,
             assets |-> GetD(p.o.assets, Arr(<<>>)),
             validation_errors |-> Absent])

Crash(e) == [ok |-> FALSE, exception |-> e]

\* errors = validate_payload(payload)
WorkerValidate ==
    /\ prog = "worker" /\ pc = "start"
    /\ errors' = validate_payload(payload)
    /\ IF errors'.raised
       THEN pc' = "crashed" /\ response' = Crash(errors'.exc)
       ELSE pc' = "validated" /\ UNCHANGED response
    /\ UNCHANGED <<prog, payload, effects, manifest, difficulty, mainVars, buildVars>>

\* The root directory made ahead of the validation.
WorkerEnsureRoot_BeforeValidate ==
    /\ prog = "worker" /\ pc = "start" /\ effects = <<>>
    /\ LET r == WorkerRoot(payload)
       IN  /\ ~r.raised
           /\ effects' = Append(effects, MkDir(r.val.root))
    /\ UNCHANGED <<prog, payload, errors, manifest, response, pc, difficulty,
                   mainVars, buildVars>>

\* out_base, job_id, root; ensure_dir(root)
WorkerEnsureRoot ==
    /\ prog = "worker" /\ pc = "validated"
    /\ LET r == WorkerRoot(payload)
       IN  IF r.raised
           THEN pc' = "crashed" /\ response' = Crash(r.exc) /\ UNCHANGED effects
           ELSE /\ pc' = "rooted"
                /\ effects' = Append(effects, MkDir(r.val.root))
                /\ UNCHANGED response
    /\ UNCHANGED <<prog, payload, errors, manifest, difficulty, mainVars, buildVars>>

\* the three opening lines of logs.txt
WorkerLogStart ==
    /\ prog = "worker" /\ pc = "rooted"
    /\ LET r == WorkerRoot(payload).val
           log_path == PathJoin(r.root, LOGS_TXT)
       IN  effects' = effects \o <<LogLine(log_path, "Phase0 start", <<>>),
                                   LogLine(log_path, "job_id", r.job_id),
                                   LogLine(log_path, "output_base_dir", r.out_base)>>
    /\ pc' = "logged"
    /\ UNCHANGED <<prog, payload, errors, manifest, response, difficulty,
                   mainVars, buildVars>>

\* if errors: the log of the errors, then the failure manifest
WorkerFailValidation ==
    /\ prog = "worker" /\ pc = "logged"
    /\ errors.val # <<>>
    /\ LET r == WorkerRoot(payload).val
           log_path == PathJoin(r.root, LOGS_TXT)
           lines == <<LogLine(log_path, "VALIDATION FAILED", <<>>)>>
                    \o [i \in DOMAIN errors.val |-> LogLine(log_path, "error", errors.val[i])]
           m == build_manifest(payload, r.root)
       IN  IF m.raised
           THEN /\ effects' = effects \o lines
                /\ pc' = "crashed" /\ response' = Crash(m.exc)
                /\ UNCHANGED manifest
           ELSE LET failed == [m.val EXCEPT !.status = "failed_validation",
                                            !.validation_errors = errors.val]
                IN  /\ effects' = effects \o lines
                                  \o <<WriteJson(PathJoin(r.root, MANIFEST_JSON), failed)>>
                    /\ manifest' = [path |-> PathJoin(r.root, MANIFEST_JSON),
                                    content |-> failed]
                    /\ response' = [ok |-> FALSE, exception |-> "none"]
                    /\ pc' = "done"
    /\ UNCHANGED <<prog, payload, errors, difficulty, mainVars, buildVars>>

\* the folder tree
WorkerCreateTree ==
    /\ prog = "worker" /\ pc = "logged"
    /\ errors.val = <<>>
    /\ LET r == WorkerRoot(payload).val
       IN  effects' = effects \o [i \in DOMAIN FOLDERS |-> MkDir(PathJoin(r.root, FOLDERS[i]))]
    /\ pc' = "tree"
    /\ UNCHANGED <<prog, payload, errors, manifest, response, difficulty,
                   mainVars, buildVars>>

\* the manifest of a valid payload, and the closing log line
WorkerWriteManifest ==
    /\ prog = "worker" /\ pc = "tree"
    /\ LET r == WorkerRoot(payload).val
           m == build_manifest(payload, r.root)
       IN  /\ effects' = effects
                \o <<WriteJson(PathJoin(r.root, MANIFEST_JSON), m.val),
                     LogLine(PathJoin(r.root, LOGS_TXT), "Phase0 complete", <<>>)>>
           /\ manifest' = [path |-> PathJoin(r.root, MANIFEST_JSON), content |-> m.val]
    /\ response' = [ok |-> TRUE, exception |-> "none"]
    /\ pc' = "done"
    /\ UNCHANGED <<prog, payload, errors, difficulty, mainVars, buildVars>>

---------------------------------------------------------------------------
(* app.py: validate_payload and the /run handler.                          *)

\* OUTPUT_BASE_DIR's default
BASE_OUTPUT_DIR == <<"/","d","a","t","a","/","o","u","t","p","u","t","s">>

\* the error message, or None; assets[0].get raises AttributeError when
\* the first asset is not a dict
app_validate_payload(p) ==
    IF ~IsDict(p) THEN Ok("Payload must be a JSON object.")
    ELSE IF ~Truthy(Get(p.o.job_id)) THEN Ok("Missing job_id.")
    ELSE IF ~Truthy(Get(p.o.assets)) \/ ~IsList(p.o.assets) THEN Ok("Missing assets array.")
    ELSE LET a0 == p.o.assets.a[1]
             mj == IF IsDict(a0) THEN GetD(a0.o.mj, Obj([image_url |-> Absent])) ELSE Null
         IN  IF ~IsDict(a0) THEN Raised("AttributeError")
             ELSE IF ~IsDict(mj) \/ ~Truthy(Get(mj.o.image_url))
                  THEN Ok("assets[0].mj.image_url is required (selected_image_url).")
                  ELSE Ok("None")

AppFolder(p) == PathJoin(BASE_OUTPUT_DIR, p.o.job_id.s)
AppSourceUrl(p) == p.o.assets.a[1].o.mj.o.image_url
AppSourcePath(p) == PathJoin(PathJoin(AppFolder(p), <<"i","n","p","u","t","s">>), <<"s","o","u","r","c","e",".","p","n","g">>)

\* err = validate_payload(payload); if err: 400
AppValidate ==
    /\ prog = "app" /\ pc = "start"
    /\ errors' = app_validate_payload(payload)
    /\ IF errors'.raised
       THEN pc' = "crashed" /\ response' = Crash(errors'.exc)
       ELSE IF errors'.val # "None"
            THEN pc' = "done" /\ response' = [ok |-> FALSE, exception |-> "none"]
            ELSE pc' = "validated" /\ UNCHANGED response
    /\ UNCHANGED <<prog, payload, effects, manifest, difficulty, mainVars, buildVars>>

\* output_folder and the folder tree; os.path.join takes a string job_id
AppEnsureDirs ==
    /\ prog = "app" /\ pc = "validated"
    /\ IF ~IsStr(payload.o.job_id)
       THEN pc' = "crashed" /\ response' = Crash("TypeError") /\ UNCHANGED effects
       ELSE /\ effects' = effects \o <<MkDir(AppFolder(payload))>>
                \o [i \in DOMAIN FOLDERS |-> MkDir(PathJoin(AppFolder(payload), FOLDERS[i]))]
            /\ pc' = "tree"
            /\ UNCHANGED response
    /\ UNCHANGED <<prog, payload, errors, manifest, difficulty, mainVars, buildVars>>

AppLogStart ==
    /\ prog = "app" /\ pc = "tree"
    /\ effects' = Append(effects, LogLine(PathJoin(AppFolder(payload), LOGS_TXT),
                                          "RUN start", payload.o.job_id.s))
    /\ pc' = "logged"
    /\ UNCHANGED <<prog, payload, errors, manifest, response, difficulty,
                   mainVars, buildVars>>

\* the download of the source image, which the network lets succeed or
\* fail; a failure leaves the error manifest
AppDownload ==
    /\ prog = "app" /\ pc = "logged"
    /\ LET folder == AppFolder(payload)
           log_path == PathJoin(folder, LOGS_TXT)
           src_url == AppSourceUrl(payload)
           started == effects \o <<LogLine(log_path, "Downloading source image", src_url),
                                   Download(src_url, AppSourcePath(payload))>>
           failure == [job_id |-> payload.o.job_id, status |-> "error",
                       output_folder |-> folder, source_url |-> src_url]
       IN  \E fetched \in {b \in BOOLEAN : b => IsStr(src_url)} :
              IF fetched
              THEN /\ effects' = started
                   /\ pc' = "downloaded"
                   /\ UNCHANGED <<manifest, response>>
              ELSE /\ effects' = started
                        \o <<LogLine(log_path, "ERROR downloading image", src_url),
                             WriteJson(PathJoin(folder, MANIFEST_JSON), failure)>>
                   /\ manifest' = [path |-> PathJoin(folder, MANIFEST_JSON),
                                   content |-> failure]
                   /\ response' = [ok |-> FALSE, exception |-> "download_failed"]
                   /\ pc' = "done"
    /\ UNCHANGED <<prog, payload, errors, difficulty, mainVars, buildVars>>

\* the manifest of a completed run
AppFinish ==
    /\ prog = "app" /\ pc = "downloaded"
    /\ LET folder == AppFolder(payload)
           log_path == PathJoin(folder, LOGS_TXT)
           manifest_path == PathJoin(folder, MANIFEST_JSON)
           m == [job_id |-> payload.o.job_id,
                 collection_id |-> Get(payload.o.collection_id),
                 trend |-> GetD(payload.o.trend, Obj([trend_id |-> Absent])),
                 difficulty |-> Get(payload.o.difficulty),
                 assets |-> GetD(payload.o.assets, Arr(<<>>)),
                 requested_outputs |-> GetD(payload.o.requested_outputs,
                                            Obj([palette |-> Absent])),
                 status |-> "phase0_complete",
                 output_folder |-> folder,
                 paths |-> [manifest |-> manifest_path, logs |-> log_path,
                            source_image |-> AppSourcePath(payload)],
                 files |-> <<AppSourcePath(payload)>>]
       IN  /\ effects' = effects
                \o <<LogLine(log_path, "Saved source image", AppSourcePath(payload)),
                     WriteJson(manifest_path, m),
                     LogLine(log_path, "Wrote manifest", manifest_path),
                     LogLine(log_path, "RUN complete", <<>>)>>
           /\ manifest' = [path |-> manifest_path, content |-> m]
    /\ response' = [ok |-> TRUE, exception |-> "none"]
    /\ pc' = "done"
    /\ UNCHANGED <<prog, payload, errors, difficulty, mainVars, buildVars>>

---------------------------------------------------------------------------
(* The payloads handed to the worker and to /run.                          *)

Asset(asset_id, generator, mj, pbn) ==
    Obj([asset_id |-> asset_id, type |-> Str(<<"H","e","r","o">>), purpose |-> Null,
         aspect_ratio |-> Null, lane |-> Str(<<"p","o","d","_","r","a","s","t","e","r">>),
         mj |-> mj, pbn |-> pbn, generator |-> generator])
Mj(visual_prompt, image_url) ==
    Obj([visual_prompt |-> visual_prompt, image_url |-> image_url])

A_mj == Asset(Str(<<"a","-","1">>), Absent, Mj(Str(<<"b","o","l","d"," ","s","u","n">>), Null), Absent)
A_mjUrl == Asset(Str(<<"a","-","1">>), Absent, Mj(Null, Str(<<"h","t","t","p",":","/","/","i","m","g">>)), Absent)
A_bathmat == Asset(Str(<<"b","-","1">>), Str(BATHMAT_GENERATOR), Mj(Null, Null), Str(<<"p","b","n"," ","s","u","n">>))
A_otherGen == Asset(Str(<<"c","-","1">>), Str(<<"o","t","h","e","r","_","g","e","n">>), Mj(Null, Null), Absent)
A_otherGenBare == Asset(Str(<<"d","-","1">>), Str(<<"o","t","h","e","r","_","g","e","n">>), Absent, Absent)
A_noId == Asset(Absent, Absent, Str(<<"b","o","l","d"," ","s","u","n">>), Str(<<"p","b","n"," ","s","u","n">>))
A_listId == Asset(Arr(<<Str(<<"a","-","1">>)>>), Absent, Absent, Absent)
A_scalar == Num(5)

AssetPool ==
    {A_mj, A_mjUrl, A_bathmat, A_otherGen, A_otherGenBare, A_noId, A_listId, A_scalar}

PayloadFields(job_id, providers, assets, io) ==
    [job_id |-> job_id,
     collection_id |-> Str(COLLECTION_ID),
     trend |-> Obj([trend_id |-> Str(<<"h","e","r","o">>)]),
     difficulty |-> Str(INTERMEDIATE),
     providers |-> providers,
     requested_outputs |-> RequestedOutputs,
     assets |-> assets,
     io |-> io]

JobIdInputs == {Str(<<"j","o","b"," ","1">>), Absent, Num(5)}
ProvidersInputs ==
    {Providers, Obj([prodigi |-> Arr(<<>>), printful |-> Absent]), Absent, Str(<<"p","r","o","d","i","g","i">>)}
AssetsInputs ==
    {Absent, Num(5), Str(<<"a","b">>), A_mj} \cup {Arr(l) : l \in SeqsUpTo(AssetPool, MaxAssets)}
IoInputs == {Obj([output_base_dir |-> Str(<<"/","o","u","t">>)]), Absent, Null}

PayloadInputs ==
    {Obj(PayloadFields(j, pr, a, io)) :
        j \in JobIdInputs, pr \in ProvidersInputs, a \in AssetsInputs, io \in IoInputs}

InitExec ==
    /\ prog \in {"worker", "app"}
    /\ payload \in PayloadInputs \cup (IF prog = "app" THEN {Null} ELSE {})
    /\ errors = Idle /\ effects = <<>> /\ manifest = Idle /\ response = Idle
    /\ pc = "start"
    /\ difficulty = INTERMEDIATE
    /\ MainIdle /\ BuildIdle

NextExec ==
    \/ WorkerValidate \/ WorkerEnsureRoot \/ WorkerLogStart
    \/ WorkerFailValidation \/ WorkerCreateTree \/ WorkerWriteManifest
    \/ AppValidate \/ AppEnsureDirs \/ AppLogStart \/ AppDownload \/ AppFinish

SpecExec == InitExec /\ [][NextExec]_vars

---------------------------------------------------------------------------
(* The claims.                                                             *)

Built == bpc \in {"built", "validated"}
BuiltAssets == job.val.o.assets.a
BathmatCount(assets) == Cardinality({i \in DOMAIN assets : IsBathmatAsset(assets[i])})

\* C1 (SpecBuild): in every payload build_job returns, no two entries of
\* assets carry the same asset_id.
C1_UniqueAssetIds ==
    Built => \A i, j \in DOMAIN BuiltAssets :
                i # j => BuiltAssets[i].o.asset_id # BuiltAssets[j].o.asset_id

\* the trends C2 calls malformed
NoStyleVariants(t) == StyleVariants(t) = <<>>
EmptyVariations(t, d) ==
    /\ StyleVariants(t) # <<>>
    /\ TierVariations(t, ResolveTier(StyleVariants(t), d).val) = <<>>
BathmatOnly(assets) == \A i \in DOMAIN assets : IsBathmatAsset(assets[i])

\* C2 (Spec): a batch of trend records never aborts on a trend without
\* style_variants or with an empty variations list: main ends having
\* written one job per trend, and the job of such a trend has an empty or
\* bath-mat-only assets list.
C2_MalformedTrendNeverAborts ==
    (/\ mpc \in {"failed", "done"}
     /\ ~trends.raised
     /\ \A i \in DOMAIN trends.val.a : IsDict(trends.val.a[i]))
    => /\ mpc = "done"
       /\ Len(out_file.a) = Len(trends.val.a)
       /\ \A i \in DOMAIN trends.val.a :
             (NoStyleVariants(trends.val.a[i]) \/ EmptyVariations(trends.val.a[i], difficulty))
             => BathmatOnly(out_file.a[i].o.assets.a)

WorkerValidated == prog = "worker" /\ errors # Idle
HasError(msg) == \E i \in DOMAIN errors.val : errors.val[i].msg = msg
ProvidersViolated(p) ==
    \/ ~IsDict(GetD(p.o.providers, Obj([prodigi |-> Absent, printful |-> Absent])))
    \/ p.o.providers = Absent
    \/ p.o.providers.o.prodigi = Absent \/ p.o.providers.o.printful = Absent

\* C3 (SpecExec): validate_payload returns a list for every payload
\* mapping, and an earlier violation never hides a later one: a missing
\* top-level key, a job_id that is no string, an assets that is no
\* sequence and a providers violation are each in the list.
C3_ValidatorAccumulates ==
    WorkerValidated =>
       /\ ~errors.raised
       /\ \A k \in Range(REQUIRED_TOP_KEYS) :
             payload.o[k] = Absent
             => \E i \in DOMAIN errors.val :
                   errors.val[i].msg = "Missing top-level key" /\ errors.val[i].key = k
       /\ (payload.o.job_id # Absent /\ ~IsStr(payload.o.job_id))
             => HasError("job_id must be a string")
       /\ (payload.o.assets # Absent /\ ~IsList(payload.o.assets))
             => HasError("assets must be an array")
       /\ ProvidersViolated(payload)
             => (HasError("providers must be object")
                 \/ HasError("providers must include prodigi and printful"))

\* C4 (SpecExec): a worker run whose validation reported an error ends
\* with manifest.json written under {output_base_dir}/{job_id}, its status
\* "failed_validation" and its validation_errors the reported list.
C4_FailedValidationLeavesManifest ==
    (/\ prog = "worker" /\ pc \in {"done", "crashed"}
     /\ errors # Idle /\ ~errors.raised /\ errors.val # <<>>)
    => /\ manifest # Idle
       /\ manifest.content.status = "failed_validation"
       /\ manifest.content.validation_errors = errors.val
       /\ manifest.path = PathJoin(WorkerRoot(payload).val.root, MANIFEST_JSON)

\* C5 (SpecBuild): the asset list normalize_variations returns holds
\* exactly one asset whose generator is "bathmat_texture_from_palette".
C5_ExactlyOneBathmat == Built => BathmatCount(BuiltAssets) = 1

\* C6 (SpecExtract): extract_inner_trends returns a non-empty list or
\* raises; it never returns an empty list or a value that is no list.
C6_ArrayOrError ==
    mpc = "returned" => IsList(trends.val) /\ trends.val.a # <<>>

MjPbnMessages ==
    {"mj must be object", "needs mj.visual_prompt or mj.image_url", "pbn must be object"}
WorkerReturnedErrors == prog = "worker" /\ errors # Idle /\ ~errors.raised
PayloadAssets == Items(GetD(payload.o.assets, Arr(<<>>)))
\* the errors that name asset i (0-based) or quote its asset_id
MjPbnErrorAt(i) ==
    \E e \in DOMAIN errors.val :
        errors.val[e].at = i /\ errors.val[e].msg \in MjPbnMessages
AnyErrorFor(i, aid) ==
    \E e \in DOMAIN errors.val : errors.val[e].at = i \/ errors.val[e].val = aid

\* C7 as stated (SpecExec): an asset that declares a generator, whatever
\* its value, gets no mj/pbn error.
C7_AnyGeneratorExempt ==
    WorkerReturnedErrors =>
       \A i \in DOMAIN PayloadAssets :
          (IsDict(PayloadAssets[i]) /\ PayloadAssets[i].o.generator # Absent)
          => ~MjPbnErrorAt(i - 1)

\* C7 as amended (SpecExec): an asset whose generator is
\* "bathmat_texture_from_palette" gets no mj/pbn error; and an asset that
\* declares a generator, has a non-empty asset_id no other asset has, and
\* has no mj and no pbn block contributes no error at all.
C7_BathmatGeneratorExempt ==
    WorkerReturnedErrors =>
       \A i \in DOMAIN PayloadAssets :
          LET a == PayloadAssets[i]
          IN  /\ (IsDict(a) /\ a.o.generator = Str(BATHMAT_GENERATOR))
                    => ~MjPbnErrorAt(i - 1)
              /\ (/\ IsDict(a) /\ a.o.generator # Absent
                  /\ a.o.mj = Absent /\ a.o.pbn = Absent
                  /\ Truthy(Get(a.o.asset_id))
                  /\ \A j \in DOMAIN PayloadAssets \ {i} :
                        IsDict(PayloadAssets[j])
                        => PayloadAssets[j].o.asset_id # a.o.asset_id)
                 => ~AnyErrorFor(i - 1, a.o.asset_id)

\* a bath-mat asset with an mj block that would fail the mj check, next to
\* a generated asset without blocks, validated
C7_Witness ==
    /\ WorkerReturnedErrors
    /\ IsList(payload.o.assets)
    /\ PayloadAssets = <<A_bathmat, A_otherGenBare>>
    /\ ~MjPbnErrorAt(0)

\* the tier the claim names for style_variants sv and difficulty d
ClaimedTier(sv, d) ==
    IF KeyIn(d, sv) THEN d
    ELSE IF KeyIn(INTERMEDIATE, sv) THEN INTERMEDIATE
    ELSE sv[1].k

\* C8 (SpecBuild): with a non-empty style_variants no error is raised and
\* the assets are those of the variations of the requested tier when it
\* is present, else of "intermediate" when present, else of the first key.
C8_TierResolution ==
    (bpc # "start" /\ StyleVariants(trend) # <<>>)
    => /\ ~job.raised
       /\ BuiltAssets = AssetsOfVariations(TrendId(trend),
             TierVariations(trend, ClaimedTier(StyleVariants(trend), difficulty)))

\* style_variants holds only "advanced", "kids" is requested, and the job
\* is built from the advanced tier's variation
C8_Witness ==
    /\ Built
    /\ difficulty = KIDS
    /\ StyleVariants(trend) = <<Tier(ADVANCED, Block(Arr(<<V_tile>>)))>>
    /\ Len(BuiltAssets) = 2
    /\ BuiltAssets[1].o.type = Str(<<"P","a","t","t","e","r","n">>)

ValidatorReturned == errors # Idle /\ ~errors.raised

\* C9 (SpecExec): no directory is made, no log line appended, no manifest
\* written and no download started before the validator has returned.
C9_ValidationBeforeSideEffects == effects # <<>> => ValidatorReturned

\* a /run that made its directories, logged, started the download and
\* wrote a manifest
C9_Witness ==
    /\ prog = "app" /\ pc = "done"
    /\ \A op \in {"mkdir", "log", "download", "write"} :
          \E i \in DOMAIN effects : effects[i].op = op

\* the well-formed trends of C10
WellFormed(t, d) ==
    /\ StyleVariants(t) # <<>>
    /\ LET vs == TierVariations(t, ResolveTier(StyleVariants(t), d).val)
           id(i) == AssetId(TrendId(t), vs[i])
       IN  /\ \A i \in DOMAIN vs : Truthy(Get(vs[i].o.visual_prompt))
           /\ \A i, j \in DOMAIN vs : i # j => id(i) # id(j)
           /\ \A i \in DOMAIN vs : id(i) # <<"b","a","t","h","m","a","t","_","c","o","o","r","d","i","n","a","t","e">>

\* C10 (SpecBuild): validate_payload finds no error in the job build_job
\* makes of a well-formed trend.
C10_BuilderValidatorAgree ==
    (bpc = "validated" /\ WellFormed(trend, difficulty))
    => ~verdict.raised /\ verdict.val = <<>>

\* a well-formed trend of two variations, one with a pbn twin, built and
\* validated
C10_Witness ==
    /\ bpc = "validated" /\ WellFormed(trend, difficulty)
    /\ Len(TierVariations(trend, ResolveTier(StyleVariants(trend), difficulty).val)) = 2
    /\ \E i \in DOMAIN BuiltAssets : BuiltAssets[i].o.pbn # Absent
    /\ \E i \in DOMAIN BuiltAssets : BuiltAssets[i].o.asset_id = Str(<<"b","a","t","h","m","a","t","_","c","o","o","r","d","i","n","a","t","e">>)

====
